---- MODULE Spec2Model ----
(***************************************************************************)
(* A model of tools/dumpformatoptions.py: the line-driven parser           *)
(* read_options, the text helpers it uses, and substitute.                 *)
(*                                                                         *)
(* A Python str is modelled as a sequence of one-character strings, so     *)
(* that startswith/endswith/strip/replace and the regular expressions are  *)
(* computed character by character as the code computes them.              *)
(***************************************************************************)
EXTENDS Integers, Sequences, FiniteSets, TLC

VARIABLES
    pc,              \* position in read_options: "loop", "post", "returned", "raised"
    state,           \* State.* of the parser
    options,         \* list of Option
    enums,           \* dict name -> Enum
    nested_structs,  \* dict name -> NestedStruct
    comment,         \* accumulated comment text
    enum,            \* current Enum or None
    nested_struct,   \* current NestedStruct or None
    line,            \* loop variable: the stripped line last consumed
    nlines,          \* number of lines of header consumed so far
    known,           \* isknownoptiontype_func, as the set of types it accepts
                     \* (drawn when the loop ends, before its first call)
    error,           \* the exception raised, if any
    result,          \* the value returned by read_options, if any
    fwd,             \* history: per Option, was its type unregistered when it was appended
    nest,            \* history: per Option, the value of depth when it was appended
    run,             \* history: the '///' lines consumed in a row just before now
    tracked,         \* whether the history variable depth is recorded in this behaviour
    depth,           \* history: number of 'struct X {' / 'enum X {' blocks of the
                     \* declaration that are textually open
    spc,             \* position in the substitute pipeline
    text,            \* substitute: the document text
    tag,             \* substitute: the tag of the region
    contents,        \* substitute: the body to insert
    out1,            \* result of substitute(text, tag, contents)
    out2,            \* result of substitute(out1, tag, contents)
    rpc,             \* position in the rendering helpers' pipeline
    rtext,           \* doxygen2rst / indent: the text argument
    columns,         \* indent: the columns argument
    indent_first_line, \* indent: the indent_first_line argument
    rout1,           \* the helper applied once
    rout2            \* doxygen2rst applied to its own result

vars == <<pc, state, options, enums, nested_structs, comment, enum, nested_struct,
          line, nlines, known, error, result, fwd, nest, run, tracked, depth,
          spc, text, tag, contents, out1, out2,
          rpc, rtext, columns, indent_first_line, rout1, rout2>>

parserVars == <<pc, state, options, enums, nested_structs, comment, enum,
                nested_struct, line, nlines, known, error, result, fwd, nest, run,
                tracked, depth>>

substVars == <<spc, text, tag, contents, out1, out2>>

renderVars == <<rpc, rtext, columns, indent_first_line, rout1, rout2>>

-----------------------------------------------------------------------------
(* Bounds *)

\* the header has at most MaxLines lines
MaxLines == 10

\* the document handed to substitute has at most MaxDocLines lines
MaxDocLines == 5

-----------------------------------------------------------------------------
(* Python str primitives on sequences of characters *)

NL == "\n"

Whitespace == {" ", "\t", NL}

Letters == {"a","b","c","d","e","f","g","h","i","j","k","l","m","n","o","p","q",
            "r","s","t","u","v","w","x","y","z",
            "A","B","C","D","E","F","G","H","I","J","K","L","M","N","O","P","Q",
            "R","S","T","U","V","W","X","Y","Z"}

Digits == {"0","1","2","3","4","5","6","7","8","9"}

\* the regular-expression class \w
WordChars == Letters \cup Digits \cup {"_"}

\* s[i:] with a 1-based i
From(s, i) == SubSeq(s, i, Len(s))

\* s[i:i+len(p)] == p, 1-based
MatchAt(s, i, p) ==
    /\ i >= 1
    /\ i + Len(p) - 1 <= Len(s)
    /\ SubSeq(s, i, i + Len(p) - 1) = p

StartsWith(s, p) == MatchAt(s, 1, p)

EndsWith(s, p) == MatchAt(s, Len(s) - Len(p) + 1, p)

\* index of the first character at or after i that is not in class; Len(s)+1 if none
RECURSIVE SkipClass(_, _, _)
SkipClass(s, i, class) ==
    IF i <= Len(s) /\ s[i] \in class THEN SkipClass(s, i + 1, class) ELSE i

\* index of the last character at or before i that is not whitespace; 0 if none
RECURSIVE LastNonSpace(_, _)
LastNonSpace(s, i) ==
    IF i >= 1 /\ s[i] \in Whitespace THEN LastNonSpace(s, i - 1) ELSE i

\* str.strip()
Strip(s) ==
    LET a == SkipClass(s, 1, Whitespace)
        b == LastNonSpace(s, Len(s))
    IN  IF a > b THEN <<>> ELSE SubSeq(s, a, b)

\* str.replace(ch, '')
Remove(s, ch) == SelectSeq(s, LAMBDA c : c # ch)

-----------------------------------------------------------------------------
(* String constants of the source *)

\* 'struct FormatStyle {'
OpenFormatStyle == <<"s","t","r","u","c","t"," ","F","o","r","m","a","t","S","t","y","l","e"," ","{">>

\* 'struct IncludeStyle {'
OpenIncludeStyle == <<"s","t","r","u","c","t"," ","I","n","c","l","u","d","e","S","t","y","l","e"," ","{">>

\* '///'
DocPrefix == <<"/","/","/">>

\* '//'
LineCommentPrefix == <<"/","/">>

\* '};'
CloseMark == <<"}",";">>

\* ';'
Semicolon == <<";">>

\* 'enum'
EnumKeyword == <<"e","n","u","m">>

\* 'struct'
StructKeyword == <<"s","t","r","u","c","t">>

\* '/// \code'
CodeMark == <<"/","/","/"," ","\\","c","o","d","e">>

\* '/// \endcode'
EndCodeMark == <<"/","/","/"," ","\\","e","n","d","c","o","d","e">>

\* '\n.. code-block:: '
CodeBlockHead == <<"\n",".","."," ","c","o","d","e","-","b","l","o","c","k",":",":"," ">>

\* 'c++'
DefaultLang == <<"c","+","+">>

-----------------------------------------------------------------------------
(* clean_comment_line *)

\* re.match(r'^/// \\code(\{.(\w+)\})?$', line): <<>> when there is no match,
\* <<lang>> when there is one (lang is <<>> when the optional group is absent)
CodeMatch(l) ==
    LET n == Len(CodeMark)
    IN  IF l = CodeMark THEN << <<>> >>
        ELSE IF /\ StartsWith(l, CodeMark)
                /\ Len(l) >= n + 4
                /\ l[n + 1] = "{"
                /\ l[n + 2] # NL
                /\ l[Len(l)] = "}"
                /\ SkipClass(l, n + 3, WordChars) = Len(l)
             THEN << SubSeq(l, n + 3, Len(l) - 1) >>
             ELSE <<>>

clean_comment_line(l) ==
    LET match == CodeMatch(l)
    IN  IF match # <<>>
        THEN LET lang == IF match[1] = <<>> THEN DefaultLang ELSE match[1]
             IN  CodeBlockHead \o lang \o <<NL, NL>>
        ELSE IF l = EndCodeMark THEN <<>>
        ELSE From(l, 5) \o <<NL>>

-----------------------------------------------------------------------------
(* The regular expressions of read_options and EnumValue.__str__ *)

\* One match of r'enum\s+(\w+)\s*(:\s*\w+\s*)?\{' starting at index i:
\* <<>> when there is none, else <<index of the closing '{', group 1>>
EnumHeaderAt(s, i) ==
    LET a == i + Len(EnumKeyword)
        b == SkipClass(s, a, Whitespace)
        c == SkipClass(s, b, WordChars)
        d == SkipClass(s, c, Whitespace)
        e == SkipClass(s, d + 1, Whitespace)
        f == SkipClass(s, e, WordChars)
        g == SkipClass(s, f, Whitespace)
    IN  IF ~(MatchAt(s, i, EnumKeyword) /\ b > a /\ c > b /\ d <= Len(s)) THEN <<>>
        ELSE IF s[d] = "{" THEN <<d, SubSeq(s, b, c - 1)>>
        ELSE IF s[d] = ":" /\ f > e /\ g <= Len(s) /\ s[g] = "{"
             THEN <<g, SubSeq(s, b, c - 1)>>
        ELSE <<>>

\* re.sub(r'enum\s+(\w+)\s*(:\s*\w+\s*)?\{', '\\1', s), scanning from index i
RECURSIVE EnumNameFrom(_, _)
EnumNameFrom(s, i) ==
    IF i > Len(s) THEN <<>>
    ELSE LET m == EnumHeaderAt(s, i)
         IN  IF m # <<>> THEN m[2] \o EnumNameFrom(s, m[1] + 1)
             ELSE <<s[i]>> \o EnumNameFrom(s, i + 1)

EnumName(l) == EnumNameFrom(l, 1)

\* One match of r'struct\s+(\w+)\s*\{' starting at index i
StructHeaderAt(s, i) ==
    LET a == i + Len(StructKeyword)
        b == SkipClass(s, a, Whitespace)
        c == SkipClass(s, b, WordChars)
        d == SkipClass(s, c, Whitespace)
    IN  IF /\ MatchAt(s, i, StructKeyword) /\ b > a /\ c > b
           /\ d <= Len(s) /\ s[d] = "{"
        THEN <<d, SubSeq(s, b, c - 1)>>
        ELSE <<>>

\* re.sub(r'struct\s+(\w+)\s*\{', '\\1', s), scanning from index i
RECURSIVE StructNameFrom(_, _)
StructNameFrom(s, i) ==
    IF i > Len(s) THEN <<>>
    ELSE LET m == StructHeaderAt(s, i)
         IN  IF m # <<>> THEN m[2] \o StructNameFrom(s, m[1] + 1)
             ELSE <<s[i]>> \o StructNameFrom(s, i + 1)

StructName(l) == StructNameFrom(l, 1)

\* the character class [<>:\w(,\s)]
FieldTypeChars == WordChars \cup Whitespace \cup {"<", ">", ":", "(", ",", ")"}

\* r'\s+(\w+);' matches s right after index k
FieldTailOK(s, k) ==
    LET b == SkipClass(s, k + 1, Whitespace)
        c == SkipClass(s, b, WordChars)
    IN  b > k + 1 /\ c > b /\ c <= Len(s) /\ s[c] = ";"

\* re.match(r'([<>:\w(,\s)]+)\s+(\w+);', l): <<>> for None, else
\* <<field_type, field_name>>. Group 1 is greedy: the longest prefix of
\* type characters after which the rest of the pattern still matches.
FieldMatch(l) ==
    LET m  == SkipClass(l, 1, FieldTypeChars) - 1
        ks == {k \in 1..m : FieldTailOK(l, k)}
    IN  IF ks = {} THEN <<>>
        ELSE LET k == CHOOSE x \in ks : \A y \in ks : y <= x
                 b == SkipClass(l, k + 1, Whitespace)
                 c == SkipClass(l, b, WordChars)
             IN  <<SubSeq(l, 1, k), SubSeq(l, b, c - 1)>>

\* index of the last '_' in s[i..e-1], 0 if none
RECURSIVE LastUnderscore(_, _, _)
LastUnderscore(s, i, e) ==
    IF e - 1 < i THEN 0
    ELSE IF s[e - 1] = "_" THEN e - 1
    ELSE LastUnderscore(s, i, e - 1)

\* index of the first newline at or after i; Len(s)+1 if none
RECURSIVE LineEnd(_, _)
LineEnd(s, i) ==
    IF i <= Len(s) /\ s[i] # NL THEN LineEnd(s, i + 1) ELSE i

\* re.sub('.*_', '', s), scanning from index i: '.' stops at a newline
RECURSIVE ConfigNameFrom(_, _)
ConfigNameFrom(s, i) ==
    IF i > Len(s) THEN <<>>
    ELSE LET e == LineEnd(s, i)
             u == LastUnderscore(s, i, e)
         IN  IF u # 0 THEN ConfigNameFrom(s, u + 1)
             ELSE <<s[i]>> \o ConfigNameFrom(s, i + 1)

\* mutant of ConfigName: the raw name is rendered as it is
ConfigName_Raw(name) == name

\* the configuration-facing name EnumValue.__str__ renders
ConfigName(name) == ConfigNameFrom(name, 1)

-----------------------------------------------------------------------------
(* Model types *)

None == <<>>

Some(x) == <<x>>

\* Option.__init__
Option(name, type, cmt) ==
    [name |-> name, type |-> type, comment |-> Strip(cmt),
     enum |-> None, nested_struct |-> None]

\* NestedStruct.__init__
NestedStruct(name, cmt) == [name |-> name, comment |-> Strip(cmt), values |-> <<>>]

\* NestedField.__init__
NestedField(name, cmt) == [name |-> name, comment |-> Strip(cmt)]

\* Enum.__init__
Enum(name, cmt) == [name |-> name, comment |-> Strip(cmt), values |-> <<>>]

\* EnumValue.__init__
EnumValue(name, cmt) == [name |-> name, comment |-> cmt]

-----------------------------------------------------------------------------
(* The header lines the model reads, as they stand in the file (unstripped) *)

\* '  /// f'
LineDocF == <<" "," ","/","/","/"," ","f">>

\* 'enum A {'
LineEnumA == <<"e","n","u","m"," ","A"," ","{">>

\* 'struct A {'
LineStructA == <<"s","t","r","u","c","t"," ","A"," ","{">>

\* '  A Field;'
LineFieldA == <<" "," ","A"," ","F","i","e","l","d",";">>

\* 'bool B;'
LineFieldBool == <<"b","o","o","l"," ","B",";">>

\* '// d;'
LineDeprecated == <<"/","/"," ","d",";">>

\* '  AA_One,'
LineMemberOne == <<" "," ","A","A","_","O","n","e",",">>

\* ''
LineBlank == <<>>

HeaderLines ==
    {OpenFormatStyle, LineDocF, CloseMark, LineEnumA, LineStructA, LineFieldA,
     LineFieldBool, LineDeprecated, LineMemberOne, LineBlank}

\* 'bool'
TypeBool == <<"b","o","o","l">>

\* 'A'
TypeA == <<"A">>

\* the known-type predicates a caller may pass, each as the set it accepts
KnownChoices == {{TypeBool}, {TypeBool, TypeA}}

-----------------------------------------------------------------------------
(* read_options: state *)

NoError == [type |-> "", msg |-> "", arg |-> <<>>]

Raise(type, msg, arg) == [type |-> type, msg |-> msg, arg |-> arg]

\* An exception leaves read_options: its frame, and with it every local, is
\* gone; only the exception reaches the caller.
Raised(type, msg, arg) ==
    /\ pc' = "raised"
    /\ error' = Raise(type, msg, arg)
    /\ state' = "BeforeStruct"
    /\ options' = <<>>
    /\ enums' = <<>>
    /\ nested_structs' = <<>>
    /\ comment' = <<>>
    /\ enum' = None
    /\ nested_struct' = None
    /\ fwd' = <<>>
    /\ nest' = <<>>

\* dict[k] = v
Put(d, k, v) == [x \in DOMAIN d \cup {k} |-> IF x = k THEN v ELSE d[x]]

ParserInit ==
    /\ pc = "loop"
    /\ state = "BeforeStruct"
    /\ options = <<>>
    /\ enums = <<>>
    /\ nested_structs = <<>>
    /\ comment = <<>>
    /\ enum = None
    /\ nested_struct = None
    /\ line = <<>>
    /\ nlines = 0
    /\ known = {}
    /\ error = NoError
    /\ result = None
    /\ fwd = <<>>
    /\ nest = <<>>
    /\ run = <<>>
    /\ depth = 0

SubstIdle ==
    /\ spc = "idle"
    /\ text = <<>>
    /\ tag = <<>>
    /\ contents = <<>>
    /\ out1 = None
    /\ out2 = None

RenderIdle ==
    /\ rpc = "idle"
    /\ rtext = <<>>
    /\ columns = 0
    /\ indent_first_line = TRUE
    /\ rout1 = None
    /\ rout2 = None

Init == ParserInit /\ tracked = FALSE /\ SubstIdle /\ RenderIdle

\* a line that opens a block: it starts with 'enum' or 'struct' and ends with '{'
IsBlockHeader(l) ==
    /\ StartsWith(l, EnumKeyword) \/ StartsWith(l, StructKeyword)
    /\ EndsWith(l, <<"{">>)

\* the number of textually open blocks after the stripped line l is read in
\* parser state st: the line that opens the declaration itself is not counted
DepthAfter(d, st, l) ==
    IF st # "BeforeStruct" /\ IsBlockHeader(l) THEN d + 1
    ELSE IF l = CloseMark /\ d > 0 THEN d - 1
    ELSE d

\* for line in header: line = line.strip(), in parser state st
Consume(l, st) ==
    /\ pc = "loop"
    /\ state = st
    /\ nlines < MaxLines
    /\ nlines' = nlines + 1
    /\ line' = Strip(l)
    /\ run' = IF StartsWith(Strip(l), DocPrefix) THEN Append(run, Strip(l)) ELSE <<>>
    /\ depth' = IF tracked THEN DepthAfter(depth, state, Strip(l)) ELSE depth
    /\ UNCHANGED <<result, tracked>>
    /\ UNCHANGED <<substVars, renderVars>>

\* mutant of AppendOption: options.insert(0, option)
AppendOption_Front(opts, option) == <<option>> \o opts

\* options.append(option)
AppendOption(opts, option) == Append(opts, option)

\* enum.values.append(v) / nested_struct.values.append(v)
AppendValue(block, v) == [block EXCEPT !.values = Append(@, v)]

IsDoc(l) == StartsWith(Strip(l), DocPrefix)

IsOpen(l) == Strip(l) = OpenFormatStyle \/ Strip(l) = OpenIncludeStyle

-----------------------------------------------------------------------------
(* read_options: the loop body, one action per branch *)

\* State.BeforeStruct, an opening line
BeforeStruct_Open(l) ==
    /\ UNCHANGED known
    /\ Consume(l, "BeforeStruct")
    /\ IsOpen(l)
    /\ state' = "InStruct"
    /\ UNCHANGED <<pc, options, enums, nested_structs, comment, enum,
                   nested_struct, error, fwd, nest>>

\* State.BeforeStruct, any other line
BeforeStruct_Skip(l) ==
    /\ UNCHANGED known
    /\ Consume(l, "BeforeStruct")
    /\ ~IsOpen(l)
    /\ UNCHANGED <<pc, state, options, enums, nested_structs, comment, enum,
                   nested_struct, error, fwd, nest>>

\* mutant of InStruct_Comment: '+=' in place of '=', the first line of a run
\* extends the comment that is already there
InStruct_Comment_Extend(l) ==
    /\ UNCHANGED known
    /\ Consume(l, "InStruct")
    /\ IsDoc(l)
    /\ state' = "InFieldComment"
    /\ comment' = comment \o clean_comment_line(Strip(l))
    /\ UNCHANGED <<pc, options, enums, nested_structs, enum, nested_struct,
                   error, fwd, nest>>

\* State.InStruct, a '///' line
InStruct_Comment(l) ==
    /\ UNCHANGED known
    /\ Consume(l, "InStruct")
    /\ IsDoc(l)
    /\ state' = "InFieldComment"
    /\ comment' = clean_comment_line(Strip(l))
    /\ UNCHANGED <<pc, options, enums, nested_structs, enum, nested_struct,
                   error, fwd, nest>>

\* mutant of InStruct_Close: the '};' branch is missing, the line is skipped
\* like any other and the scan goes on
InStruct_Close_Missing(l) ==
    /\ UNCHANGED known
    /\ Consume(l, "InStruct")
    /\ ~IsDoc(l)
    /\ Strip(l) = CloseMark
    /\ UNCHANGED <<pc, state, options, enums, nested_structs, comment, enum,
                   nested_struct, error, fwd, nest>>

\* State.InStruct, '};': Finished, break
InStruct_Close(l) ==
    /\ known' \in KnownChoices
    /\ Consume(l, "InStruct")
    /\ ~IsDoc(l)
    /\ Strip(l) = CloseMark
    /\ state' = "Finished"
    /\ pc' = "post"
    /\ UNCHANGED <<options, enums, nested_structs, comment, enum,
                   nested_struct, error, fwd, nest>>

\* State.InStruct, any other line
InStruct_Skip(l) ==
    /\ UNCHANGED known
    /\ Consume(l, "InStruct")
    /\ ~IsDoc(l)
    /\ Strip(l) # CloseMark
    /\ UNCHANGED <<pc, state, options, enums, nested_structs, comment, enum,
                   nested_struct, error, fwd, nest>>

\* State.InFieldComment, a '///' line
InFieldComment_Comment(l) ==
    /\ UNCHANGED known
    /\ Consume(l, "InFieldComment")
    /\ IsDoc(l)
    /\ comment' = comment \o clean_comment_line(Strip(l))
    /\ UNCHANGED <<pc, state, options, enums, nested_structs, enum,
                   nested_struct, error, fwd, nest>>

\* mutant of InFieldComment_Enum: a new Enum is made only when there is no
\* current one, so a second enum block goes on filling the first
InFieldComment_Enum_Reuse(l) ==
    /\ UNCHANGED known
    /\ Consume(l, "InFieldComment")
    /\ ~IsDoc(l)
    /\ StartsWith(Strip(l), EnumKeyword)
    /\ state' = "InEnum"
    /\ enum' = IF enum = None THEN Some(Enum(EnumName(Strip(l)), comment)) ELSE enum
    /\ UNCHANGED <<pc, options, enums, nested_structs, comment, nested_struct,
                   error, fwd, nest>>

\* State.InFieldComment, a line starting with 'enum'
InFieldComment_Enum(l) ==
    /\ UNCHANGED known
    /\ Consume(l, "InFieldComment")
    /\ ~IsDoc(l)
    /\ StartsWith(Strip(l), EnumKeyword)
    /\ state' = "InEnum"
    /\ enum' = Some(Enum(EnumName(Strip(l)), comment))
    /\ UNCHANGED <<pc, options, enums, nested_structs, comment, nested_struct,
                   error, fwd, nest>>

\* State.InFieldComment, a line starting with 'struct'
InFieldComment_Struct(l) ==
    /\ UNCHANGED known
    /\ Consume(l, "InFieldComment")
    /\ ~IsDoc(l)
    /\ ~StartsWith(Strip(l), EnumKeyword)
    /\ StartsWith(Strip(l), StructKeyword)
    /\ state' = "InNestedStruct"
    /\ nested_struct' = Some(NestedStruct(StructName(Strip(l)), comment))
    /\ UNCHANGED <<pc, options, enums, nested_structs, comment, enum,
                   error, fwd, nest>>

\* none of the first three branches of State.InFieldComment takes the line
IsDeclaration(l) ==
    /\ ~IsDoc(l)
    /\ ~StartsWith(Strip(l), EnumKeyword)
    /\ ~StartsWith(Strip(l), StructKeyword)

IsDeprecated(l) ==
    StartsWith(Strip(l), LineCommentPrefix) /\ EndsWith(Strip(l), Semicolon)

\* mutant of InFieldComment_Deprecated: the branch is missing, the line falls
\* through to the field branch, whose pattern does not match a '//' line
InFieldComment_Deprecated_Missing(l) ==
    /\ UNCHANGED known
    /\ Consume(l, "InFieldComment")
    /\ IsDeclaration(l)
    /\ IsDeprecated(l)
    /\ Raised("AttributeError", "'NoneType' object has no attribute 'groups'", <<>>)

\* State.InFieldComment, '// ...;': skip deprecated fields
InFieldComment_Deprecated(l) ==
    /\ UNCHANGED known
    /\ Consume(l, "InFieldComment")
    /\ IsDeclaration(l)
    /\ IsDeprecated(l)
    /\ state' = "InStruct"
    /\ UNCHANGED <<pc, options, enums, nested_structs, comment, enum,
                   nested_struct, error, fwd, nest>>

\* State.InFieldComment, a line ending in ';' that the field pattern matches
InFieldComment_Field(l) ==
    /\ UNCHANGED known
    /\ Consume(l, "InFieldComment")
    /\ IsDeclaration(l)
    /\ ~IsDeprecated(l)
    /\ EndsWith(Strip(l), Semicolon)
    /\ FieldMatch(Strip(l)) # <<>>
    /\ state' = "InStruct"
    /\ LET field_type == FieldMatch(Strip(l))[1]
           field_name == FieldMatch(Strip(l))[2]
       IN  /\ options' = AppendOption(options, Option(field_name, field_type, comment))
           /\ fwd' = Append(fwd, field_type \notin (DOMAIN enums \cup DOMAIN nested_structs))
           /\ nest' = Append(nest, depth)
    /\ UNCHANGED <<pc, enums, nested_structs, comment, enum, nested_struct, error>>

\* State.InFieldComment, a line ending in ';' that the field pattern does not
\* match: re.match returns None and .groups() raises AttributeError
InFieldComment_NoMatch(l) ==
    /\ UNCHANGED known
    /\ Consume(l, "InFieldComment")
    /\ IsDeclaration(l)
    /\ ~IsDeprecated(l)
    /\ EndsWith(Strip(l), Semicolon)
    /\ FieldMatch(Strip(l)) = <<>>
    /\ Raised("AttributeError", "'NoneType' object has no attribute 'groups'", <<>>)

\* State.InFieldComment, anything else
InFieldComment_Invalid(l) ==
    /\ UNCHANGED known
    /\ Consume(l, "InFieldComment")
    /\ IsDeclaration(l)
    /\ ~IsDeprecated(l)
    /\ ~EndsWith(Strip(l), Semicolon)
    /\ Raised("Exception", "Invalid format, expected comment, field or enum", <<>>)

\* State.InNestedStruct, a '///' line
InNestedStruct_Comment(l) ==
    /\ UNCHANGED known
    /\ Consume(l, "InNestedStruct")
    /\ IsDoc(l)
    /\ state' = "InNestedFieldComent"
    /\ comment' = clean_comment_line(Strip(l))
    /\ UNCHANGED <<pc, options, enums, nested_structs, enum, nested_struct,
                   error, fwd, nest>>

\* State.InNestedStruct, '};'
InNestedStruct_Close(l) ==
    /\ UNCHANGED known
    /\ Consume(l, "InNestedStruct")
    /\ ~IsDoc(l)
    /\ Strip(l) = CloseMark
    /\ state' = "InStruct"
    /\ nested_structs' = Put(nested_structs, nested_struct[1].name, nested_struct[1])
    /\ UNCHANGED <<pc, options, enums, comment, enum, nested_struct, error, fwd, nest>>

\* State.InNestedStruct, any other line
InNestedStruct_Skip(l) ==
    /\ UNCHANGED known
    /\ Consume(l, "InNestedStruct")
    /\ ~IsDoc(l)
    /\ Strip(l) # CloseMark
    /\ UNCHANGED <<pc, state, options, enums, nested_structs, comment, enum,
                   nested_struct, error, fwd, nest>>

\* State.InNestedFieldComent, a '///' line
InNestedFieldComent_Comment(l) ==
    /\ UNCHANGED known
    /\ Consume(l, "InNestedFieldComent")
    /\ IsDoc(l)
    /\ comment' = comment \o clean_comment_line(Strip(l))
    /\ UNCHANGED <<pc, state, options, enums, nested_structs, enum,
                   nested_struct, error, fwd, nest>>

\* State.InNestedFieldComent, any other line is the field
InNestedFieldComent_Field(l) ==
    /\ UNCHANGED known
    /\ Consume(l, "InNestedFieldComent")
    /\ ~IsDoc(l)
    /\ state' = "InNestedStruct"
    /\ nested_struct' =
         Some(AppendValue(nested_struct[1], NestedField(Remove(Strip(l), ";"), comment)))
    /\ UNCHANGED <<pc, options, enums, nested_structs, comment, enum, error, fwd, nest>>

\* mutant of InEnum_Comment: '+=' in place of '=', the comment of the enum
\* or of the member before stays in front of the new member's comment
InEnum_Comment_Extend(l) ==
    /\ UNCHANGED known
    /\ Consume(l, "InEnum")
    /\ IsDoc(l)
    /\ state' = "InEnumMemberComment"
    /\ comment' = comment \o clean_comment_line(Strip(l))
    /\ UNCHANGED <<pc, options, enums, nested_structs, enum, nested_struct,
                   error, fwd, nest>>

\* State.InEnum, a '///' line
InEnum_Comment(l) ==
    /\ UNCHANGED known
    /\ Consume(l, "InEnum")
    /\ IsDoc(l)
    /\ state' = "InEnumMemberComment"
    /\ comment' = clean_comment_line(Strip(l))
    /\ UNCHANGED <<pc, options, enums, nested_structs, enum, nested_struct,
                   error, fwd, nest>>

\* State.InEnum, '};'
InEnum_Close(l) ==
    /\ UNCHANGED known
    /\ Consume(l, "InEnum")
    /\ ~IsDoc(l)
    /\ Strip(l) = CloseMark
    /\ state' = "InStruct"
    /\ enums' = Put(enums, enum[1].name, enum[1])
    /\ UNCHANGED <<pc, options, nested_structs, comment, enum, nested_struct,
                   error, fwd, nest>>

\* State.InEnum, an empty line
InEnum_Blank(l) ==
    /\ UNCHANGED known
    /\ Consume(l, "InEnum")
    /\ ~IsDoc(l)
    /\ Strip(l) # CloseMark
    /\ Strip(l) = <<>>
    /\ UNCHANGED <<pc, state, options, enums, nested_structs, comment, enum,
                   nested_struct, error, fwd, nest>>

\* State.InEnum, anything else
InEnum_Invalid(l) ==
    /\ UNCHANGED known
    /\ Consume(l, "InEnum")
    /\ ~IsDoc(l)
    /\ Strip(l) # CloseMark
    /\ Strip(l) # <<>>
    /\ Raised("Exception", "Invalid format, expected enum field comment or };", <<>>)

\* State.InEnumMemberComment, a '///' line
InEnumMemberComment_Comment(l) ==
    /\ UNCHANGED known
    /\ Consume(l, "InEnumMemberComment")
    /\ IsDoc(l)
    /\ comment' = comment \o clean_comment_line(Strip(l))
    /\ UNCHANGED <<pc, state, options, enums, nested_structs, enum,
                   nested_struct, error, fwd, nest>>

\* mutant of InEnumMemberComment_Value: a '};' line closes the enum as it does
\* in InEnum, and only the other lines are members
InEnumMemberComment_Value_Close(l) ==
    /\ UNCHANGED known
    /\ Consume(l, "InEnumMemberComment")
    /\ ~IsDoc(l)
    /\ IF Strip(l) = CloseMark
       THEN /\ state' = "InStruct"
            /\ enums' = Put(enums, enum[1].name, enum[1])
            /\ UNCHANGED enum
       ELSE /\ state' = "InEnum"
            /\ enum' = Some(AppendValue(enum[1], EnumValue(Remove(Strip(l), ","), comment)))
            /\ UNCHANGED enums
    /\ UNCHANGED <<pc, options, nested_structs, comment, nested_struct,
                   error, fwd, nest>>

\* State.InEnumMemberComment, any other line is the member
InEnumMemberComment_Value(l) ==
    /\ UNCHANGED known
    /\ Consume(l, "InEnumMemberComment")
    /\ ~IsDoc(l)
    /\ state' = "InEnum"
    /\ enum' = Some(AppendValue(enum[1], EnumValue(Remove(Strip(l), ","), comment)))
    /\ UNCHANGED <<pc, options, enums, nested_structs, comment, nested_struct,
                   error, fwd, nest>>

-----------------------------------------------------------------------------
(* read_options: after the loop *)

\* mutant of ResolveOption: 'if' in place of 'elif', so both lookups run
ResolveOption_Both(o) ==
    IF o.type \in known THEN o
    ELSE [o EXCEPT
            !.enum = IF o.type \in DOMAIN enums THEN Some(enums[o.type]) ELSE @,
            !.nested_struct = IF o.type \in DOMAIN nested_structs
                              THEN Some(nested_structs[o.type]) ELSE @]

\* the body of the post-pass loop for one option that can be resolved
ResolveOption(o) ==
    IF o.type \in known THEN o
    ELSE IF o.type \in DOMAIN enums THEN [o EXCEPT !.enum = Some(enums[o.type])]
    ELSE IF o.type \in DOMAIN nested_structs
         THEN [o EXCEPT !.nested_struct = Some(nested_structs[o.type])]
    ELSE o

\* mutant of Unresolvable: the lookup in nested_structs is forgotten
Unresolvable_NoStructs(o) ==
    /\ o.type \notin known
    /\ o.type \notin DOMAIN enums

\* the post-pass loop reaches its else branch for option o
Unresolvable(o) ==
    /\ o.type \notin known
    /\ o.type \notin DOMAIN enums
    /\ o.type \notin DOMAIN nested_structs

\* indices of the options for which the post-pass would raise
UnresolvableAt == {i \in 1..Len(options) : Unresolvable(options[i])}

\* the condition of line 175
NotFinishedCheck == state # "Finished"

\* mutant of EndOfInput: the check of line 175 is missing, and the options
\* gathered so far are returned
EndOfInput_NoCheck ==
    /\ pc = "loop"
    /\ pc' = "returned"
    /\ result' = Some(options)
    /\ UNCHANGED <<state, options, enums, nested_structs, comment, enum,
                   nested_struct, line, nlines, known, error, fwd, nest, run, tracked, depth>>
    /\ UNCHANGED <<substVars, renderVars>>

\* the header is exhausted, the for loop ends, and the check of line 175 raises
EndOfInput ==
    /\ pc = "loop"
    /\ NotFinishedCheck
    /\ Raised("Exception", "Not finished by the end of file", <<>>)
    /\ UNCHANGED <<line, nlines, known, result, run, tracked, depth>>
    /\ UNCHANGED <<substVars, renderVars>>

\* the post-pass reaches an option of unknown type and raises
PostPass_Unknown ==
    /\ pc = "post"
    /\ ~NotFinishedCheck
    /\ UnresolvableAt # {}
    /\ LET first == CHOOSE i \in UnresolvableAt : \A j \in UnresolvableAt : i <= j
       IN  Raised("Exception", "Unknown type: %s", options[first].type)
    /\ UNCHANGED <<line, nlines, known, result, run, tracked, depth>>
    /\ UNCHANGED <<substVars, renderVars>>

\* mutant of PostPass_Return: types are resolved in one pass, so an option
\* declared before its block was registered stays unresolved
PostPass_Return_OnePass ==
    /\ pc = "post"
    /\ ~NotFinishedCheck
    /\ UnresolvableAt = {}
    /\ options' = [i \in 1..Len(options) |->
                     IF fwd[i] THEN options[i] ELSE ResolveOption(options[i])]
    /\ result' = Some(options')
    /\ pc' = "returned"
    /\ UNCHANGED <<state, enums, nested_structs, comment, enum, nested_struct,
                   line, nlines, known, error, fwd, nest, run, tracked, depth>>
    /\ UNCHANGED <<substVars, renderVars>>

\* the post-pass resolves every option: return options
PostPass_Return ==
    /\ pc = "post"
    /\ ~NotFinishedCheck
    /\ UnresolvableAt = {}
    /\ options' = [i \in 1..Len(options) |-> ResolveOption(options[i])]
    /\ result' = Some(options')
    /\ pc' = "returned"
    /\ UNCHANGED <<state, enums, nested_structs, comment, enum, nested_struct,
                   line, nlines, known, error, fwd, nest, run, tracked, depth>>
    /\ UNCHANGED <<substVars, renderVars>>

ParserNext ==
    \/ \E l \in HeaderLines :
         \/ BeforeStruct_Open(l)
         \/ BeforeStruct_Skip(l)
         \/ InStruct_Comment(l)
         \/ InStruct_Close(l)
         \/ InStruct_Skip(l)
         \/ InFieldComment_Comment(l)
         \/ InFieldComment_Enum(l)
         \/ InFieldComment_Struct(l)
         \/ InFieldComment_Deprecated(l)
         \/ InFieldComment_Field(l)
         \/ InFieldComment_NoMatch(l)
         \/ InFieldComment_Invalid(l)
         \/ InNestedStruct_Comment(l)
         \/ InNestedStruct_Close(l)
         \/ InNestedStruct_Skip(l)
         \/ InNestedFieldComent_Comment(l)
         \/ InNestedFieldComent_Field(l)
         \/ InEnum_Comment(l)
         \/ InEnum_Close(l)
         \/ InEnum_Blank(l)
         \/ InEnum_Invalid(l)
         \/ InEnumMemberComment_Comment(l)
         \/ InEnumMemberComment_Value(l)
    \/ EndOfInput
    \/ PostPass_Unknown
    \/ PostPass_Return

Next == ParserNext

Spec == Init /\ [][Next]_vars

-----------------------------------------------------------------------------
(* substitute *)

\* '\n.. START_'
StartHead == <<"\n",".","."," ","S","T","A","R","T","_">>

\* '\n.. END_'
EndHead == <<"\n",".","."," ","E","N","D","_">>

\* '\n.. START_%s\n\n%s\n\n.. END_%s\n' % (tag, contents, tag)
Replacement(t, c) ==
    StartHead \o t \o <<NL, NL>> \o c \o <<NL>> \o EndHead \o t \o <<NL>>

\* the literal text r'\n\.\. START_%s\n' matches, for a tag of word characters
PatternStart(t) == StartHead \o t \o <<NL>>

\* the literal text r'\n\.\. END_%s\n' matches, for a tag of word characters
PatternEnd(t) == EndHead \o t \o <<NL>>

\* the indices j >= from at which p occurs in s
Occurrences(s, p, from) == {j \in from..Len(s) : MatchAt(s, j, p)}

\* One match of the pattern (flags=re.S) starting exactly at index i: 0 when
\* there is none, else the index of its last character. '.*' is greedy and
\* crosses newlines, so the match ends with the last END line after i.
RegionEndAt(s, t, i) ==
    LET ends == Occurrences(s, PatternEnd(t), i + Len(PatternStart(t)))
    IN  IF MatchAt(s, i, PatternStart(t)) /\ ends # {}
        THEN (CHOOSE j \in ends : \A k \in ends : k <= j) + Len(PatternEnd(t)) - 1
        ELSE 0

\* re.sub(pattern, '%s', s, flags=re.S), scanning from index i: every match,
\* leftmost first and not overlapping, becomes '%s'
RECURSIVE ReSubRegion(_, _, _)
ReSubRegion(s, t, i) ==
    IF i > Len(s) THEN <<>>
    ELSE LET e == RegionEndAt(s, t, i)
         IN  IF e # 0 THEN <<"%", "s">> \o ReSubRegion(s, t, e + 1)
             ELSE <<s[i]>> \o ReSubRegion(s, t, i + 1)

Ok(x) == [ok |-> TRUE, text |-> x, error |-> ""]

Err(e) == [ok |-> FALSE, text |-> <<>>, error |-> e]

\* fmt % arg for a str arg, scanning fmt from index i; used is the number of
\* arguments consumed so far, out the text produced so far. After a '%' the
\* model tells '%' (a literal '%'), 's' (the argument) and everything else,
\* which for the characters of the model's documents is an error; the
\* argument is fetched before the conversion character is looked at.
RECURSIVE FormatFrom(_, _, _, _, _)
FormatFrom(fmt, arg, i, used, out) ==
    IF i > Len(fmt)
    THEN IF used = 0
         THEN Err("TypeError: not all arguments converted during string formatting")
         ELSE Ok(out)
    ELSE IF fmt[i] # "%" THEN FormatFrom(fmt, arg, i + 1, used, Append(out, fmt[i]))
    ELSE IF i = Len(fmt) THEN Err("ValueError: incomplete format")
    ELSE IF fmt[i + 1] = "%" THEN FormatFrom(fmt, arg, i + 2, used, Append(out, "%"))
    ELSE IF used = 1 THEN Err("TypeError: not enough arguments for format string")
    ELSE IF fmt[i + 1] = "s" THEN FormatFrom(fmt, arg, i + 2, 1, out \o arg)
    ELSE Err("ValueError: unsupported format character")

\* the % operator of line 16
Format(fmt, arg) == FormatFrom(fmt, arg, 1, 0, <<>>)

\* substitute(text, tag, contents): the text returned or the exception raised
substitute(d, t, c) == Format(ReSubRegion(d, t, 1), Replacement(t, c))

\* 'X'
TagX == <<"X">>

Tags == {TagX}

\* the lines a document is made of: '', '.. START_X', '.. END_X', 'old',
\* '%%' and '%s'
DocLines ==
    {<<>>, <<".","."," ","S","T","A","R","T","_","X">>, <<".","."," ","E","N","D","_","X">>, <<"o","l","d">>, <<"%","%">>, <<"%","s">>}

\* the bodies substituted: 'new' and '%'
Bodies == {<<"n","e","w">>, <<"%">>}

\* the text of a file of these lines, each ended by a newline
RECURSIVE JoinLines(_)
JoinLines(ls) ==
    IF ls = <<>> THEN <<>> ELSE Head(ls) \o <<NL>> \o JoinLines(Tail(ls))

Documents ==
    {JoinLines(ls) : ls \in UNION {[1..n -> DocLines] : n \in 0..MaxDocLines}}

ParserIdle ==
    /\ pc = "idle"
    /\ state = "BeforeStruct"
    /\ options = <<>>
    /\ enums = <<>>
    /\ nested_structs = <<>>
    /\ comment = <<>>
    /\ enum = None
    /\ nested_struct = None
    /\ line = <<>>
    /\ nlines = 0
    /\ known = {}
    /\ error = NoError
    /\ result = None
    /\ fwd = <<>>
    /\ nest = <<>>
    /\ run = <<>>
    /\ tracked = FALSE
    /\ depth = 0

SubstInit ==
    /\ spc = "ready"
    /\ text \in Documents
    /\ tag \in Tags
    /\ contents \in Bodies
    /\ out1 = None
    /\ out2 = None

\* text = substitute(text, tag, contents), the first run of the tool
SubstituteOnce ==
    /\ spc = "ready"
    /\ out1' = Some(substitute(text, tag, contents))
    /\ spc' = "once"
    /\ UNCHANGED <<text, tag, contents, out2>>
    /\ UNCHANGED parserVars
    /\ UNCHANGED renderVars

\* the tool is run again on the document it wrote
SubstituteAgain ==
    /\ spc = "once"
    /\ out1[1].ok
    /\ out2' = Some(substitute(out1[1].text, tag, contents))
    /\ spc' = "twice"
    /\ UNCHANGED <<text, tag, contents, out1>>
    /\ UNCHANGED parserVars
    /\ UNCHANGED renderVars

SubstNext == SubstituteOnce \/ SubstituteAgain

InitSub == ParserIdle /\ SubstInit /\ RenderIdle

SpecSub == InitSub /\ [][SubstNext]_vars

-----------------------------------------------------------------------------
(* Claims about read_options *)

\* the for loop ends because the header is exhausted: the loop is left and no
\* line is consumed
Exhausted == pc = "loop" /\ pc' # "loop" /\ nlines' = nlines

C1_Step ==
    /\ pc' = "returned" => state' = "Finished" /\ result' = Some(options')
    /\ result' # None => pc' = "returned"
    /\ (state' = "Finished" /\ state # "Finished") =>
          state = "InStruct" /\ line' = CloseMark /\ nlines' = nlines + 1
    /\ Exhausted =>
          /\ state \in {"BeforeStruct", "InStruct", "InFieldComment", "InEnum",
                        "InEnumMemberComment", "InNestedStruct", "InNestedFieldComent"}
          /\ pc' = "raised"
          /\ error' = Raise("Exception", "Not finished by the end of file", <<>>)
          /\ result' = None

\* C1: read_options returns a list of Options only when the parser reached
\* Finished, which happens only by consuming '};' in InStruct; when the header
\* is exhausted in any other state it raises 'Not finished by the end of file'
\* and returns nothing.
C1_FinishedOrIncomplete == [][C1_Step]_vars

\* the header ended inside an enum block, after a member line
C1_Witness ==
    /\ pc = "raised"
    /\ error = Raise("Exception", "Not finished by the end of file", <<>>)
    /\ line = Strip(LineMemberOne)
    /\ nlines >= 5
    /\ result = None

UnknownTypeAt(i) ==
    /\ options[i].type \notin known
    /\ options[i].type \notin DOMAIN enums
    /\ options[i].type \notin DOMAIN nested_structs

C2_Step ==
    pc = "post" =>
      IF \E i \in 1..Len(options) : UnknownTypeAt(i)
      THEN /\ pc' = "raised"
           /\ result' = None
           /\ error'.type = "Exception"
           /\ error'.msg = "Unknown type: %s"
           /\ \E i \in 1..Len(options) :
                 /\ UnknownTypeAt(i)
                 /\ \A j \in 1..(i - 1) : ~UnknownTypeAt(j)
                 /\ error'.arg = options[i].type
      ELSE /\ pc' = "returned"
           /\ error' = NoError
           /\ result' # None

\* C2: after a structurally successful parse, if some Option has a type that
\* the known-type predicate rejects and that is a key of neither registry,
\* read_options raises 'Unknown type: <type>' for the first such Option and
\* returns nothing; if there is no such Option it raises nothing and returns.
C2_UnknownTypeRaises == [][C2_Step]_vars

\* the parse finished and the post-pass raised for the type A
C2_Witness ==
    /\ pc = "raised"
    /\ error = Raise("Exception", "Unknown type: %s", TypeA)
    /\ line = CloseMark
    /\ result = None

\* C6: in every returned Option at most one of enum and nested_struct is set,
\* and neither is set when the known-type predicate accepts the type.
C6_AtMostOneAttachment ==
    pc = "returned" =>
      \A i \in 1..Len(result[1]) :
        LET o == result[1][i]
        IN  /\ ~(o.enum # None /\ o.nested_struct # None)
            /\ o.type \in known => (o.enum = None /\ o.nested_struct = None)

\* an Option whose type is a key of both registries was returned
C6_Witness ==
    /\ pc = "returned"
    /\ \E i \in 1..Len(result[1]) :
         LET o == result[1][i]
         IN  /\ o.type \notin known
             /\ o.type \in DOMAIN enums
             /\ o.type \in DOMAIN nested_structs
             /\ o.enum = Some(enums[o.type])
             /\ o.nested_struct = None

\* what the parser reads of an Option; the post-pass only sets its attachment
Key(o) == <<o.name, o.type, o.comment>>

Keys(opts) == [i \in 1..Len(opts) |-> Key(opts[i])]

\* new is old, or old with one element appended
Extends(old, new) ==
    /\ Len(new) \in {Len(old), Len(old) + 1}
    /\ \A i \in 1..Len(old) : new[i] = old[i]

C7_Step ==
    pc' # "raised" =>
      /\ Extends(Keys(options), Keys(options'))
      /\ Len(options') = Len(options) + 1 =>
            LET o == options'[Len(options')]
            IN  line' = o.type \o <<" ">> \o o.name \o <<";">>
      /\ state \in {"InEnum", "InEnumMemberComment"} =>
            /\ enum # None /\ enum' # None
            /\ enum'[1].name = enum[1].name
            /\ Extends(enum[1].values, enum'[1].values)
            /\ Len(enum'[1].values) = Len(enum[1].values) + 1 =>
                  enum'[1].values[Len(enum'[1].values)].name = Remove(line', ",")
      /\ state \in {"InNestedStruct", "InNestedFieldComent"} =>
            /\ nested_struct # None /\ nested_struct' # None
            /\ nested_struct'[1].name = nested_struct[1].name
            /\ Extends(nested_struct[1].values, nested_struct'[1].values)
            /\ Len(nested_struct'[1].values) = Len(nested_struct[1].values) + 1 =>
                  nested_struct'[1].values[Len(nested_struct'[1].values)].name
                    = Remove(line', ";")
      /\ \/ enums' = enums
         \/ state = "InEnum" /\ enums' = Put(enums, enum[1].name, enum[1])
      /\ \/ nested_structs' = nested_structs
         \/ /\ state = "InNestedStruct"
            /\ nested_structs' = Put(nested_structs, nested_struct[1].name, nested_struct[1])

\* C7: declaration order is preserved: every step leaves the Options, the
\* values of the open Enum and the values of the open NestedStruct as they
\* were or appends one element made from the line just consumed at the end,
\* and a block is registered with the values it holds.
C7_OrderPreserved == [][C7_Step]_vars

\* 'bool B;' was declared before 'A Field;' and both were returned in that order
C7_Witness ==
    /\ pc = "returned"
    /\ Len(result[1]) = 2
    /\ result[1][1].name = <<"B">>
    /\ result[1][2].name = <<"F","i","e","l","d">>

\* the part of s after its last '_', all of s when it has none
AfterLastUnderscore(s) ==
    LET us == {i \in 1..Len(s) : s[i] = "_"}
    IN  IF us = {} THEN s
        ELSE SubSeq(s, (CHOOSE i \in us : \A j \in us : j <= i) + 1, Len(s))

\* C8: a returned Option whose type the predicate rejects and that names a
\* registered enum carries that Enum, and each of its values renders, as its
\* configuration name, the part of its raw name after the last underscore.
C8_EnumAttached ==
    pc = "returned" =>
      \A i \in 1..Len(result[1]) :
        LET o == result[1][i]
        IN  (o.type \notin known /\ o.type \in DOMAIN enums) =>
              /\ o.enum = Some(enums[o.type])
              /\ o.nested_struct = None
              /\ \A k \in 1..Len(o.enum[1].values) :
                    ConfigName(o.enum[1].values[k].name)
                      = AfterLastUnderscore(o.enum[1].values[k].name)

\* the scenario: enum A with the documented member AA_One, then 'A Field;'
C8_Witness ==
    /\ pc = "returned"
    /\ TypeA \notin known
    /\ result = Some(<<
         [name |-> <<"F","i","e","l","d">>, type |-> TypeA, comment |-> <<"f">>,
          enum |-> Some([name |-> TypeA, comment |-> <<"f">>,
                         values |-> << [name |-> <<"A","A","_","O","n","e">>,
                                        comment |-> <<"f", NL>>] >>]),
          nested_struct |-> None] >>)
    /\ fwd = <<FALSE>>
    /\ ConfigName(result[1][1].enum[1].values[1].name) = <<"O","n","e">>

\* C9: resolution does not depend on declaration order: every returned Option
\* of a type the predicate rejects carries the block registered under its
\* type when the scan ended, whether or not that block was registered when
\* the Option was declared; two Options of one type carry the same block.
C9_OrderIndependent ==
    pc = "returned" =>
      /\ \A i \in 1..Len(result[1]) :
           LET o == result[1][i]
           IN  o.type \notin known =>
                 /\ o.type \in DOMAIN enums => o.enum = Some(enums[o.type])
                 /\ (o.type \notin DOMAIN enums /\ o.type \in DOMAIN nested_structs) =>
                       o.nested_struct = Some(nested_structs[o.type])
      /\ \A i, j \in 1..Len(result[1]) :
           result[1][i].type = result[1][j].type =>
             /\ result[1][i].enum = result[1][j].enum
             /\ result[1][i].nested_struct = result[1][j].nested_struct

\* one Option was declared before the enum block, one after, and both carry it
C9_Witness ==
    /\ pc = "returned"
    /\ \E i, j \in 1..Len(result[1]) :
         /\ fwd[i] /\ ~fwd[j]
         /\ result[1][i].enum # None
         /\ result[1][i].enum = result[1][j].enum

\* the text the lines of a documentation run add up to
RECURSIVE CommentOf(_)
CommentOf(lines) ==
    IF lines = <<>> THEN <<>>
    ELSE CommentOf(SubSeq(lines, 1, Len(lines) - 1))
           \o clean_comment_line(lines[Len(lines)])

C10_Step ==
    /\ (/\ pc = "loop" /\ state = "InFieldComment" /\ nlines' = nlines + 1
        /\ StartsWith(line', <<"/","/">>)
        /\ ~StartsWith(line', <<"/","/","/">>)
        /\ EndsWith(line', <<";">>))
       => /\ pc' = "loop"
          /\ state' = "InStruct"
          /\ options' = options
          /\ enums' = enums
          /\ nested_structs' = nested_structs
          /\ enum' = enum
          /\ nested_struct' = nested_struct
    /\ (pc' # "raised" /\ Len(options') = Len(options) + 1)
       => options'[Len(options')].comment = Strip(CommentOf(run))
    /\ (pc' # "raised" /\ state = "InFieldComment" /\ state' = "InEnum")
       => enum'[1].comment = Strip(CommentOf(run))
    /\ (pc' # "raised" /\ state = "InFieldComment" /\ state' = "InNestedStruct")
       => nested_struct'[1].comment = Strip(CommentOf(run))

\* C10: in InFieldComment a line that starts with '//', not with '///', and
\* ends with ';' creates no Option, Enum or NestedStruct and returns the
\* parser to InStruct; and the comment it followed is discarded: an entity
\* created later is documented by the '///' lines consumed right before its
\* own line and by nothing older.
C10_DeprecatedSkipped == [][C10_Step]_vars

\* a deprecated field was just skipped after one Option had been declared
C10_Witness ==
    /\ pc = "loop"
    /\ state = "InStruct"
    /\ line = Strip(LineDeprecated)
    /\ Len(options) = 1
    /\ comment # <<>>

-----------------------------------------------------------------------------
(* Claims about substitute *)

\* C3: substitute is idempotent: when substitute(d, t, b) succeeds, applying
\* substitute to its result with the same tag and body succeeds and returns
\* that result again.
C3_Idempotent ==
    spc = "twice" => (out2[1].ok /\ out2[1].text = out1[1].text)

\* the marker line '.. START_<tag>' / '.. END_<tag>' with its newline
StartLine(t) == Tail(PatternStart(t))

EndLine(t) == Tail(PatternEnd(t))

\* p is a whole line of s that begins at index i
LineAt(s, i, p) == MatchAt(s, i, p) /\ (i = 1 \/ s[i - 1] = NL)

\* the document has a START line of the tag followed later by an END line
HasRegion(s, t) ==
    \E i \in 1..Len(s) : \E j \in i..Len(s) :
       LineAt(s, i, StartLine(t)) /\ LineAt(s, j, EndLine(t))

\* the document has a region the pattern of substitute matches
Anchored(s, t) ==
    \E i \in 1..Len(s) : \E j \in (i + Len(PatternStart(t)))..Len(s) :
       MatchAt(s, i, PatternStart(t)) /\ MatchAt(s, j, PatternEnd(t))

\* C4: substitute changes only the anchored region: when the document is
\* pre + START line + ... + END line + post and substitute returns, the result
\* is pre + START line + blank line + body + blank line + END line + post, with
\* pre and post byte for byte the same.
C4_OnlyRegionChanges ==
    (spc = "once" /\ out1[1].ok /\ Anchored(text, tag)) =>
      \E i \in 1..Len(text) : \E j \in i..Len(text) :
         /\ LineAt(text, i, StartLine(tag))
         /\ LineAt(text, j, EndLine(tag))
         /\ out1[1].text =
              SubSeq(text, 1, i - 1)
                \o StartLine(tag) \o <<NL>> \o contents \o <<NL, NL>> \o EndLine(tag)
                \o From(text, j + Len(EndLine(tag)))

\* C5: when the document has no anchored region for the tag, substitute
\* raises: it never returns a text.
C5_FailsWithoutRegion ==
    (spc = "once" /\ ~HasRegion(text, tag)) => ~out1[1].ok

-----------------------------------------------------------------------------
(* Claims about the comment and the current block of read_options *)

\* the step creates an Option, Enum, NestedStruct, EnumValue or NestedField
CreatesEntity ==
    /\ pc = "loop" /\ pc' = "loop"
    /\ \/ Len(options') = Len(options) + 1
       \/ state = "InFieldComment" /\ state' \in {"InEnum", "InNestedStruct"}
       \/ state = "InEnumMemberComment" /\ state' = "InEnum"
       \/ state = "InNestedFieldComent" /\ state' = "InNestedStruct"

\* the step consumes the first '///' line of a run
StartsRun ==
    /\ pc = "loop" /\ pc' = "loop"
    /\ state \in {"InStruct", "InEnum", "InNestedStruct"}
    /\ state' \in {"InFieldComment", "InEnumMemberComment", "InNestedFieldComent"}

C11_Step == CreatesEntity => comment' = <<>>

C11_Amended_Step ==
    /\ CreatesEntity => comment' = comment
    /\ StartsRun => comment' = clean_comment_line(line')

-----------------------------------------------------------------------------
(* doxygen2rst *)

\* '<tt>'
TTOpen == <<"<","t","t",">">>

\* '</tt>'
TTClose == <<"<","/","t","t",">">>

\* The grave accent of the replacement text. A TLA+ string cannot hold that
\* character, so the model writes it as the symbol "GRAVE": one element of a
\* text, equal only to itself and a member of no character class.
Grave == "GRAVE"

\* the two grave accents that open and close inline code in the output
Backquotes == <<Grave, Grave>>

\* a backslash, 'c' and a space
CodeCommand == <<"\\","c"," ">>

\* the characters [^ ,;\.] stops at
CodeStops == {" ", ",", ";", "."}

\* every character of s[a..b-1] is in class
AllIn(s, a, b, class) == \A k \in a..(b - 1) : s[k] \in class

\* The matches of r'<tt>\s*(.*?)\s*<\/tt>' that start at index i, each as
\* <<a, b, e>>: the group is s[a..b-1] and the match ends at index e. The
\* text before the group is whitespace, the group holds no newline, and
\* whitespace up to '</tt>' follows it.
TTMatches(s, i) ==
    IF ~MatchAt(s, i, TTOpen) THEN {}
    ELSE {m \in (i + 4..Len(s) + 1) \X (i + 4..Len(s) + 1) \X (i + 4..Len(s)) :
            /\ m[1] <= m[2]
            /\ AllIn(s, i + 4, m[1], Whitespace)
            /\ \A k \in m[1]..(m[2] - 1) : s[k] # NL
            /\ MatchAt(s, SkipClass(s, m[2], Whitespace), TTClose)
            /\ m[3] = SkipClass(s, m[2], Whitespace) + Len(TTClose) - 1}

\* the match the engine returns: the first '\s*' is greedy (the largest a),
\* the group is lazy (then the smallest b)
TTMatch(s, i) ==
    LET ms == TTMatches(s, i)
    IN  CHOOSE m \in ms :
          \A n \in ms : n[1] < m[1] \/ (n[1] = m[1] /\ m[2] <= n[2])

\* re.sub(r'<tt>\s*(.*?)\s*<\/tt>', '[backquotes][group 1][backquotes]', s), scanning from index i
RECURSIVE ReSubTT(_, _)
ReSubTT(s, i) ==
    IF i > Len(s) THEN <<>>
    ELSE IF TTMatches(s, i) # {}
         THEN LET m == TTMatch(s, i)
              IN  Backquotes \o SubSeq(s, m[1], m[2] - 1) \o Backquotes
                    \o ReSubTT(s, m[3] + 1)
         ELSE <<s[i]>> \o ReSubTT(s, i + 1)

\* index of the first character at or after i that is in class; Len(s)+1 if none
RECURSIVE SkipNot(_, _, _)
SkipNot(s, i, class) ==
    IF i <= Len(s) /\ s[i] \notin class THEN SkipNot(s, i + 1, class) ELSE i

\* re.sub(r'\\c ([^ ,;\.]+)', '[backquotes][group 1][backquotes]', s), scanning from index i
RECURSIVE ReSubCode(_, _)
ReSubCode(s, i) ==
    IF i > Len(s) THEN <<>>
    ELSE LET e == SkipNot(s, i + 3, CodeStops)
         IN  IF MatchAt(s, i, CodeCommand) /\ e > i + 3
             THEN Backquotes \o SubSeq(s, i + 3, e - 1) \o Backquotes
                    \o ReSubCode(s, e)
             ELSE <<s[i]>> \o ReSubCode(s, i + 1)

\* re.sub(r'\\\w+ ', '', s), scanning from index i
RECURSIVE ReSubCommand(_, _)
ReSubCommand(s, i) ==
    IF i > Len(s) THEN <<>>
    ELSE LET e == SkipClass(s, i + 1, WordChars)
         IN  IF s[i] = "\\" /\ e > i + 1 /\ e <= Len(s) /\ s[e] = " "
             THEN ReSubCommand(s, e + 1)
             ELSE <<s[i]>> \o ReSubCommand(s, i + 1)

doxygen2rst(t) == ReSubCommand(ReSubCode(ReSubTT(t, 1), 1), 1)

\* the pieces a text handed to doxygen2rst is made of: '<tt>', '</tt>', '\',
\* 'c', 'a' and ' '
MarkupPieces == {TTOpen, TTClose, <<"\\">>, <<"c">>, <<"a">>, <<" ">>}

\* the text has at most MaxPieces pieces
MaxPieces == 5

RECURSIVE Concat(_)
Concat(ps) == IF ps = <<>> THEN <<>> ELSE Head(ps) \o Concat(Tail(ps))

MarkupTexts ==
    {Concat(ps) : ps \in UNION {[1..n -> MarkupPieces] : n \in 0..MaxPieces}}

DoxygenInit ==
    /\ rpc = "ready"
    /\ rtext \in MarkupTexts
    /\ columns = 0
    /\ indent_first_line = TRUE
    /\ rout1 = None
    /\ rout2 = None

\* doxygen2rst(text)
Doxygen2rstOnce ==
    /\ rpc = "ready"
    /\ rout1' = Some(doxygen2rst(rtext))
    /\ rpc' = "once"
    /\ UNCHANGED <<rtext, columns, indent_first_line, rout2>>
    /\ UNCHANGED <<parserVars, substVars>>

\* doxygen2rst applied to its own result
Doxygen2rstAgain ==
    /\ rpc = "once"
    /\ rout2' = Some(doxygen2rst(rout1[1]))
    /\ rpc' = "twice"
    /\ UNCHANGED <<rtext, columns, indent_first_line, rout1>>
    /\ UNCHANGED <<parserVars, substVars>>

DoxygenNext == Doxygen2rstOnce \/ Doxygen2rstAgain

InitDoxygen == ParserIdle /\ SubstIdle /\ DoxygenInit

SpecDoxygen == InitDoxygen /\ [][DoxygenNext]_vars

\* C12: doxygen2rst is idempotent: for every text x,
\* doxygen2rst(doxygen2rst(x)) equals doxygen2rst(x).
C12_Idempotent == rpc = "twice" => rout2[1] = rout1[1]

-----------------------------------------------------------------------------
(* indent *)

\* ' ' * n
Spaces(n) == [k \in 1..n |-> " "]

\* re.sub(r'\n([^\n])', '\n' + ind + group 1, s, flags=re.S), scanning from
\* index i: the indent goes after every newline that another character follows
RECURSIVE ReSubIndent(_, _, _)
ReSubIndent(s, ind, i) ==
    IF i > Len(s) THEN <<>>
    ELSE IF s[i] = NL /\ i < Len(s) /\ s[i + 1] # NL
         THEN <<NL>> \o ind \o <<s[i + 1]>> \o ReSubIndent(s, ind, i + 2)
         ELSE <<s[i]>> \o ReSubIndent(s, ind, i + 1)

\* indent(text, columns, indent_first_line)
indent(t, n, first) ==
    LET s == ReSubIndent(t, Spaces(n), 1)
    IN  IF ~first \/ StartsWith(s, <<NL>>) THEN s ELSE Spaces(n) \o s

\* the text handed to indent has at most MaxTextLen characters, 'a' or newline
MaxTextLen == 4

\* indent is called with at most MaxColumns columns
MaxColumns == 2

IndentTexts == UNION {[1..n -> {"a", NL}] : n \in 0..MaxTextLen}

IndentInit ==
    /\ rpc = "ready"
    /\ rtext \in IndentTexts
    /\ columns \in 0..MaxColumns
    /\ indent_first_line \in BOOLEAN
    /\ rout1 = None
    /\ rout2 = None

\* indent(text, columns, indent_first_line)
IndentOnce ==
    /\ rpc = "ready"
    /\ rout1' = Some(indent(rtext, columns, indent_first_line))
    /\ rpc' = "indented"
    /\ UNCHANGED <<rtext, columns, indent_first_line, rout2>>
    /\ UNCHANGED <<parserVars, substVars>>

IndentNext == IndentOnce

InitIndent == ParserIdle /\ SubstIdle /\ IndentInit

SpecIndent == InitIndent /\ [][IndentNext]_vars

\* C13: indent never indents a fully-empty input: for every width and either
\* value of indent_first_line, indent('', width) returns the empty string.
C13_EmptyStaysEmpty == (rpc = "indented" /\ rtext = <<>>) => rout1[1] = <<>>

-----------------------------------------------------------------------------
(* Claims about the lines inside a block *)

\* the step consumes one line in parser state st
Reads(st) == pc = "loop" /\ state = st /\ nlines' = nlines + 1

C14_Step ==
    /\ (Reads("InEnum") /\ line' = <<>>)
       => /\ pc' = "loop" /\ state' = "InEnum"
          /\ enum' = enum /\ enums' = enums /\ options' = options
    /\ (/\ Reads("InEnum") \/ Reads("InNestedStruct")
        /\ ~StartsWith(line', DocPrefix)
        /\ line' # CloseMark
        /\ ~(state = "InEnum" /\ line' = <<>>))
       => pc' = "raised" /\ error'.type = "Exception"

\* C14: in InEnum a blank line is ignored; in InEnum and in InNestedStruct
\* every other line that is neither a '///' line nor '};' makes read_options
\* raise a format error, a blank line or an undocumented field line in
\* InNestedStruct included.
C14_UnexpectedLineFatal == [][C14_Step]_vars

-----------------------------------------------------------------------------
(* Claims about the region substitute replaces *)

\* the indices at which a START line of the tag begins
StartLinesOf(s, t) == {i \in 1..Len(s) : LineAt(s, i, StartLine(t))}

\* the indices after the START line at i at which an END line of the tag begins
EndLinesAfter(s, t, i) ==
    {j \in (i + Len(StartLine(t)))..Len(s) : LineAt(s, j, EndLine(t))}

\* the document with the span from the START line at i to the END line at j
\* replaced by the START line, a blank line, the body c, a blank line and the
\* END line
WithRegion(s, t, c, i, j) ==
    SubSeq(s, 1, i - 1)
      \o StartLine(t) \o <<NL>> \o c \o <<NL, NL>> \o EndLine(t)
      \o From(s, j + Len(EndLine(t)))

\* C15: the region substitute replaces is the shortest span from a START line
\* to an END line: it ends at the first END line after the START line, also
\* when more END lines follow, and also when the END line directly follows
\* the START line. Stated for a document without '%' whose one START line is
\* not its first line.
C15_ShortestSpan ==
    (/\ spc = "once"
     /\ \A k \in 1..Len(text) : text[k] # "%"
     /\ Cardinality(StartLinesOf(text, tag)) = 1
     /\ 1 \notin StartLinesOf(text, tag))
    => \A i \in StartLinesOf(text, tag) :
         LET ends == EndLinesAfter(text, tag, i)
         IN  ends # {} =>
               LET j == CHOOSE e \in ends : \A k \in ends : e <= k
               IN  /\ out1[1].ok
                   /\ out1[1].text = WithRegion(text, tag, contents, i, j)

-----------------------------------------------------------------------------
(* Claims about the end of the scan *)

C16_Step ==
    /\ (Reads("InStruct") /\ line' = CloseMark)
       => pc' = "post" /\ state' = "Finished"
    /\ pc = "post"
       => /\ nlines' = nlines /\ line' = line
          /\ pc' \in {"returned", "raised"}
          /\ pc' = "returned"
             => result' = Some([i \in 1..Len(options) |-> ResolveOption(options[i])])
          /\ pc' = "raised"
             => \E i \in 1..Len(options) :
                  error' = Raise("Exception", "Unknown type: %s", options[i].type)

\* C16: the scan halts at the first '};' read in InStruct: that step leaves
\* the loop in Finished, no line is read after it, and the result (the
\* Options returned, or the unknown-type error) is computed from what the
\* lines up to it have built.
C16_ScanHalts == [][C16_Step]_vars

\* read_options has returned an Option although the header had room for
\* more lines after the closing '};'
C16_Witness ==
    /\ pc = "returned"
    /\ nlines < MaxLines
    /\ Len(result[1]) >= 1

-----------------------------------------------------------------------------
(* Claims about the member-comment states *)

C17_Step ==
    /\ (Reads("InEnumMemberComment") /\ StartsWith(line', DocPrefix))
       => /\ pc' = "loop" /\ state' = "InEnumMemberComment"
          /\ comment' = comment \o clean_comment_line(line')
          /\ enum' = enum
    /\ (Reads("InEnumMemberComment") /\ ~StartsWith(line', DocPrefix))
       => /\ pc' = "loop" /\ state' = "InEnum"
          /\ enum'[1].name = enum[1].name
          /\ enum'[1].values =
               Append(enum[1].values,
                      [name |-> Remove(line', ","), comment |-> comment])
          /\ enums' = enums
    /\ (Reads("InNestedFieldComent") /\ StartsWith(line', DocPrefix))
       => /\ pc' = "loop" /\ state' = "InNestedFieldComent"
          /\ comment' = comment \o clean_comment_line(line')
          /\ nested_struct' = nested_struct
    /\ (Reads("InNestedFieldComent") /\ ~StartsWith(line', DocPrefix))
       => /\ pc' = "loop" /\ state' = "InNestedStruct"
          /\ nested_struct'[1].name = nested_struct[1].name
          /\ nested_struct'[1].values =
               Append(nested_struct[1].values,
                      [name |-> Remove(line', ";"), comment |-> Strip(comment)])
          /\ nested_structs' = nested_structs

\* C17: in InEnumMemberComment and InNestedFieldComent a '///' line keeps the
\* state and extends the comment; every other line, a blank line and '};'
\* included, appends exactly one EnumValue (the line without ',') or
\* NestedField (the line without ';') that carries the accumulated comment to
\* the open block and returns to InEnum / InNestedStruct; no line raises.
C17_MemberLines == [][C17_Step]_vars

\* a '};' line read in InEnumMemberComment has become a member of the enum
C17_Witness ==
    /\ pc = "loop"
    /\ state = "InEnum"
    /\ enum # None
    /\ Len(enum[1].values) = 1
    /\ enum[1].values[1].name = CloseMark

-----------------------------------------------------------------------------
(* read_options with the history of the blocks that are textually open *)

InitNest == ParserInit /\ tracked = TRUE /\ SubstIdle /\ RenderIdle

SpecNest == InitNest /\ [][Next]_vars

C18_Step ==
    /\ pc' = "returned" => \A i \in 1..Len(nest) : nest[i] = 0
    /\ (pc = "loop" /\ nlines' = nlines + 1 /\ line' = CloseMark /\ depth >= 1)
       => state' # "Finished"

\* C18: only fields declared directly in the top-level struct become
\* Options: when read_options returns, no Option of the result comes from a
\* field line that lies inside a 'struct X {' or 'enum X {' block of the
\* declaration, documented or not; and the '};' that closes such a block
\* never moves the parser to Finished.
C18_OnlyTopLevelFields == [][C18_Step]_vars

-----------------------------------------------------------------------------
(* Claims about the comment an entity is constructed with *)

C19_Step ==
    /\ CreatesEntity => comment = CommentOf(run)
    /\ (CreatesEntity /\ Len(options') = Len(options) + 1)
       => options'[Len(options')].comment = Strip(CommentOf(run))
    /\ (CreatesEntity /\ state = "InFieldComment" /\ state' = "InEnum")
       => enum'[1].comment = Strip(CommentOf(run))
    /\ (CreatesEntity /\ state = "InFieldComment" /\ state' = "InNestedStruct")
       => nested_struct'[1].comment = Strip(CommentOf(run))
    /\ (CreatesEntity /\ state = "InEnumMemberComment")
       => enum'[1].values[Len(enum'[1].values)].comment = CommentOf(run)
    /\ (CreatesEntity /\ state = "InNestedFieldComent")
       => nested_struct'[1].values[Len(nested_struct'[1].values)].comment
            = Strip(CommentOf(run))

\* C19: comments never leak between entities: the comment an Option, Enum,
\* NestedStruct, EnumValue or NestedField is constructed with is exactly the
\* concatenation of the cleaned '///' lines of the run read immediately
\* before its declaration line (the constructors of all but EnumValue then
\* store it stripped), with no text of an older run.
C19_NoCommentLeak == [][C19_Step]_vars

\* an enum that has its own comment holds two members, each with the comment
\* of its own run
C19_Witness ==
    /\ pc = "loop"
    /\ state = "InEnum"
    /\ enum # None
    /\ enum[1].comment # <<>>
    /\ Len(enum[1].values) = 2
    /\ \A i \in 1..2 : enum[1].values[i].comment = clean_comment_line(Strip(LineDocF))

-----------------------------------------------------------------------------
(* Claims about the current block *)

\* new is the block old, with the same name and comment and with the values
\* of old, or those and one more
SameBlock(old, new) ==
    /\ new # None
    /\ new[1].name = old[1].name
    /\ new[1].comment = old[1].comment
    /\ Extends(old[1].values, new[1].values)

C20_Step ==
    /\ (pc = "loop" /\ state \in {"InEnum", "InEnumMemberComment"}) => enum # None
    /\ (pc = "loop" /\ state \in {"InNestedStruct", "InNestedFieldComent"})
       => nested_struct # None
    /\ (Reads("InFieldComment") /\ state' = "InEnum")
       => enum' = Some([name |-> EnumName(line'), comment |-> Strip(comment),
                        values |-> <<>>])
    /\ (Reads("InFieldComment") /\ state' = "InNestedStruct")
       => nested_struct' = Some([name |-> StructName(line'), comment |-> Strip(comment),
                                 values |-> <<>>])
    /\ (pc' = "loop" /\ state \in {"InEnum", "InEnumMemberComment"})
       => /\ SameBlock(enum, enum')
          /\ nested_struct' = nested_struct
          /\ nested_structs' = nested_structs
          /\ IF state = "InEnum" /\ nlines' = nlines + 1 /\ line' = CloseMark
             THEN enum' = enum /\ enums' = Put(enums, enum[1].name, enum[1])
             ELSE enums' = enums
    /\ (pc' = "loop" /\ state \in {"InNestedStruct", "InNestedFieldComent"})
       => /\ SameBlock(nested_struct, nested_struct')
          /\ enum' = enum
          /\ enums' = enums
          /\ IF state = "InNestedStruct" /\ nlines' = nlines + 1 /\ line' = CloseMark
             THEN /\ nested_struct' = nested_struct
                  /\ nested_structs' =
                       Put(nested_structs, nested_struct[1].name, nested_struct[1])
             ELSE nested_structs' = nested_structs

\* C20: the parser never dereferences a missing current block: in InEnum and
\* InEnumMemberComment the variable enum holds the Enum made by the most
\* recent enum-header line, in InNestedStruct and InNestedFieldComent the
\* variable nested_struct holds the NestedStruct made by the most recent
\* struct-header line, and each member appended and each registration at '};'
\* goes to that block and to no other.
C20_CurrentBlock == [][C20_Step]_vars

\* a second enum block was opened after a first one with a member was
\* registered: the current Enum is the new, empty one
C20_Witness ==
    /\ pc = "loop"
    /\ state = "InEnum"
    /\ enum # None
    /\ enum[1].values = <<>>
    /\ enum[1].name \in DOMAIN enums
    /\ Len(enums[enum[1].name].values) = 1

====
